---- MODULE Spec2Model ----
(***************************************************************************)
(* Model of the photoslop editor: the store (stores/editorStore.ts) with   *)
(* its layer commands, history log, document and tools, and the canvas     *)
(* handlers that act on the scene (App.tsx, CanvasToolHandler.tsx,         *)
(* ImageResizeDialog.tsx, utils/canvas.ts), as a state machine.            *)
(***************************************************************************)
EXTENDS Integers, Sequences, FiniteSets, TLC

VARIABLES layers, activeLayerId, returned, history, historyIndex, maxHistory, nextUuid,
          document, activeTool, previousTool, selection, foregroundColor, backgroundColor,
          objects, canvasDims, activeObject, isDrawing, origin, activeShape, selectionRect,
          cropRect, spaceDown, loads

vars == <<layers, activeLayerId, returned, history, historyIndex, maxHistory, nextUuid,
          document, activeTool, previousTool, selection, foregroundColor, backgroundColor,
          objects, canvasDims, activeObject, isDrawing, origin, activeShape, selectionRect,
          cropRect, spaceDown, loads>>

layerVars == <<layers, activeLayerId>>
\* the fields of the store object
storeVars == <<layers, activeLayerId, history, historyIndex, maxHistory>>
historyVars == <<history, historyIndex, maxHistory>>
toolVars == <<activeTool, previousTool>>
colorVars == <<foregroundColor, backgroundColor>>
\* the Fabric canvas: its objects, its element dimensions and its active object
sceneVars == <<objects, canvasDims, activeObject>>
\* the refs of CanvasToolHandler
refVars == <<isDrawing, origin, activeShape, selectionRect, cropRect>>
\* everything outside the layer commands and the history log
editorVars == <<document, toolVars, selection, colorVars, sceneVars, refVars, spaceDown, loads>>

(* ----------------------------- bounds ---------------------------------- *)

\* Number of uuid() calls explored by the layer commands.
MaxUuid == 3

\* Number of uuid() calls explored by pushHistory.
MaxPushes == 4

\* Value of the store's maxHistory field explored in place of its default:
\* pushHistory reads the field only in `newHistory.length > s.maxHistory`.
MaxHistory == 3

\* Longest layers array explored.
MaxLayers == 2

(* ----------------------------- values ---------------------------------- *)

\* JavaScript null (activeLayerId: string | null)
Null == "null"

\* JavaScript undefined as an array entry or a missing return value
Undefined == [undefined |-> TRUE]

\* uuid(): the n-th call returns a string no earlier call returned
uuid(n) == "id" \o ToString(n)

Labels == {"Draw shape", "Crop"}
Snapshots == {"s0", "s1"}
\* Date.now() values
Times == {0}

Max(a, b) == IF a >= b THEN a ELSE b
Min(a, b) == IF a <= b THEN a ELSE b

(* ------------------------ JavaScript arrays ---------------------------- *)

\* relative start index of Array.prototype.splice / slice for an array of length len
RelIndex(k, len) == IF k < 0 THEN Max(len + k, 0) ELSE Min(k, len)

\* arr.slice(0, end)
Slice0(arr, end) == SubSeq(arr, 1, RelIndex(end, Len(arr)))

\* arr.shift(): the array without its first entry
Shifted(arr) == SubSeq(arr, 2, Len(arr))

(* ------------------------ JavaScript numbers --------------------------- *)

\* A number is a fraction <<n, d>> in lowest terms with d > 0; the values
\* without one are <<1, 0>> (Infinity), <<-1, 0>> (-Infinity) and <<0, 0>> (NaN).
Abs(k) == IF k < 0 THEN 0 - k ELSE k
Sign(k) == IF k > 0 THEN 1 ELSE IF k < 0 THEN 0 - 1 ELSE 0

RECURSIVE Gcd(_, _)
Gcd(a, b) == IF b = 0 THEN a ELSE Gcd(b, a % b)

Frac(n, d) ==
  IF d = 0 THEN <<Sign(n), 0>>
  ELSE LET g == Gcd(Abs(n), Abs(d))
       IN  <<Sign(d) * Sign(n) * (Abs(n) \div g), Abs(d) \div g>>

Num(k) == <<k, 1>>
NaN == <<0, 0>>
IsFinite(a) == a[2] # 0

\* a * b
Mul(a, b) == Frac(a[1] * b[1], a[2] * b[2])
\* a + b
Add(a, b) ==
  IF a[2] = 0 /\ b[2] = 0
  THEN IF a = b THEN a ELSE NaN
  ELSE Frac(a[1] * b[2] + b[1] * a[2], a[2] * b[2])
\* a - b
Sub(a, b) == Add(a, <<0 - b[1], b[2]>>)
\* a / b
Div(a, b) == Mul(a, Frac(b[2], b[1]))
\* a < b
Lt(a, b) ==
  /\ a # NaN
  /\ b # NaN
  /\ IF a[2] = 0 /\ b[2] = 0 THEN a[1] < b[1] ELSE a[1] * b[2] < b[1] * a[2]
\* a || b
Or(a, b) == IF a = Num(0) \/ a = NaN THEN b ELSE a
\* Math.min(a, b), Math.abs(a), Math.round(a)
MathMin(a, b) == IF a = NaN \/ b = NaN THEN NaN ELSE IF Lt(b, a) THEN b ELSE a
MathAbs(a) == <<Abs(a[1]), a[2]>>
MathRound(a) ==
  IF IsFinite(a)
  THEN LET m == 2 * a[1] + a[2]
           q == 2 * a[2]
       IN  Num(IF m >= 0 THEN m \div q ELSE 0 - ((q - 1 - m) \div q))
  ELSE a

(* ------------------------------ history -------------------------------- *)

canUndo == historyIndex > 0
canRedo == historyIndex < Len(history) - 1

HistoryEntry(label, snapshot, now) ==
  [id |-> uuid(nextUuid), label |-> label, timestamp |-> now, snapshot |-> snapshot]

\* pushHistory without the slice: the redo-able future is kept
PushedHistory_NoTruncate(label, snapshot, now) ==
  LET newHistory == Append(history, HistoryEntry(label, snapshot, now))
  IN  IF Len(newHistory) > maxHistory THEN Shifted(newHistory) ELSE newHistory

\* pushHistory without the shift: nothing is evicted
PushedHistory_NoEvict(label, snapshot, now) ==
  Append(Slice0(history, historyIndex + 1), HistoryEntry(label, snapshot, now))

PushedHistory(label, snapshot, now) ==
  LET newHistory == Append(Slice0(history, historyIndex + 1), HistoryEntry(label, snapshot, now))
  IN  IF Len(newHistory) > maxHistory THEN Shifted(newHistory) ELSE newHistory

pushHistory(label, snapshot, now) ==
  /\ nextUuid <= MaxPushes
  /\ history' = PushedHistory(label, snapshot, now)
  /\ historyIndex' = Len(history') - 1
  /\ nextUuid' = nextUuid + 1
  /\ returned' = Null
  /\ UNCHANGED <<layerVars, maxHistory>>

\* historyIndex after undo(), after redo() on a log of len entries
UndoIndex(index) == Max(0, index - 1)
RedoIndex(index, len) == Min(len - 1, index + 1)

\* undo without Math.max(0, ...)
undo_NoFloor ==
  /\ historyIndex' = historyIndex - 1
  /\ returned' = Null
  /\ UNCHANGED <<layerVars, history, maxHistory, nextUuid>>

\* undo that also drops the entries after the new index
undo_DropsFuture ==
  /\ historyIndex' = UndoIndex(historyIndex)
  /\ history' = [k \in 1..Min(Len(history), historyIndex' + 1) |-> history[k]]
  /\ returned' = Null
  /\ UNCHANGED <<layerVars, maxHistory, nextUuid>>

undo ==
  /\ historyIndex' = UndoIndex(historyIndex)
  /\ returned' = Null
  /\ UNCHANGED <<layerVars, history, maxHistory, nextUuid>>

redo ==
  /\ historyIndex' = RedoIndex(historyIndex, Len(history))
  /\ returned' = Null
  /\ UNCHANGED <<layerVars, history, maxHistory, nextUuid>>

PushHistory ==
  /\ \E label \in Labels, snapshot \in Snapshots, now \in Times : pushHistory(label, snapshot, now)
  /\ UNCHANGED editorVars
Undo == undo /\ UNCHANGED editorVars
Redo == redo /\ UNCHANGED editorVars

(* ------------------------------- layers -------------------------------- *)

\* ids a caller can name: those uuid() can have produced, and one it never produces
ForeignId == "custom"

IsLayer(l) == l # Undefined
LayerIdsOf(ls) == {ls[k].id : k \in {j \in 1..Len(ls) : IsLayer(ls[j])}}

\* { ...base, ...over }
Spread(base, over) ==
  [f \in DOMAIN base \cup DOMAIN over |-> IF f \in DOMAIN over THEN over[f] ELSE base[f]]

\* the argument objects passed to addLayer (no argument is the empty object)
NoPartial == <<>>
Partials ==
  {NoPartial, [type |-> "group", name |-> "Group"], [id |-> ForeignId]}

\* the argument objects passed to updateLayer
Updates == {[name |-> "Group"]}

\* the layer object addLayer builds
NewLayer(id, partial, len) ==
  Spread([id        |-> id,
          name      |-> IF "name" \in DOMAIN partial /\ partial.name # ""
                        THEN partial.name ELSE "Layer " \o ToString(len + 1),
          visible   |-> TRUE,
          locked    |-> FALSE,
          opacity   |-> 1,
          blendMode |-> "source-over",
          type      |-> IF "type" \in DOMAIN partial THEN partial.type ELSE "raster"],
         partial)

\* a callback reading l.id throws a TypeError on an undefined entry
ThrowsOnEntries(ls) == \E k \in 1..Len(ls) : ~IsLayer(ls[k])

\* the filter with its test inverted: (l) => l.id === id
RemovedLayers_KeepMatch(ls, id) == SelectSeq(ls, LAMBDA l : l.id = id)

\* s.layers.filter((l) => l.id !== id)
RECURSIVE RemovedLayers(_, _)
RemovedLayers(ls, id) ==
  IF ls = <<>> THEN <<>>
  ELSE IF Head(ls).id # id THEN <<Head(ls)>> \o RemovedLayers(Tail(ls), id)
       ELSE RemovedLayers(Tail(ls), id)

\* s.layers[0]?.id ?? null
FirstIdOrNull(ls) == IF Len(ls) > 0 /\ IsLayer(ls[1]) THEN ls[1].id ELSE Null

\* [moved] = layers.splice(from, 1): the entry taken out, and what is left
SpliceMoved(ls, from) ==
  LET start == RelIndex(from, Len(ls))
  IN  IF start < Len(ls) THEN ls[start + 1] ELSE Undefined

SpliceRest(ls, from) ==
  LET start == RelIndex(from, Len(ls))
  IN  IF start < Len(ls) THEN SubSeq(ls, 1, start) \o SubSeq(ls, start + 2, Len(ls)) ELSE ls

\* layers.splice(to, 0, moved)
SpliceInsert(ls, to, moved) ==
  LET start == RelIndex(to, Len(ls))
  IN  SubSeq(ls, 1, start) \o <<moved>> \o SubSeq(ls, start + 1, Len(ls))

Reordered(ls, from, to) == SpliceInsert(SpliceRest(ls, from), to, SpliceMoved(ls, from))

\* index (1-based) at which layers.find((l) => l.id === id) stops: the first
\* entry that matches or on which the callback throws; 0 when it runs off the end
FindStop(ls, id) ==
  LET hits == {k \in 1..Len(ls) : ~IsLayer(ls[k]) \/ ls[k].id = id}
  IN  IF hits = {} THEN 0 ELSE CHOOSE k \in hits : \A j \in hits : k <= j

\* flattenLayers keeping the last layer instead of the first
Flattened_KeepLast(ls) == <<Spread(ls[Len(ls)], [name |-> "Background", id |-> ls[Len(ls)].id])>>

\* the single layer flattenLayers keeps
Flattened(ls) == <<Spread(ls[1], [name |-> "Background", id |-> ls[1].id])>>

addLayer(partial) ==
  /\ nextUuid <= MaxUuid
  /\ Len(layers) < MaxLayers
  /\ layers' = Append(layers, NewLayer(uuid(nextUuid), partial, Len(layers)))
  /\ activeLayerId' = uuid(nextUuid)
  /\ returned' = uuid(nextUuid)
  /\ nextUuid' = nextUuid + 1
  /\ UNCHANGED historyVars

removeLayer(id) ==
  /\ IF ThrowsOnEntries(layers)
     THEN UNCHANGED <<layers, activeLayerId>>
     ELSE /\ layers' = RemovedLayers(layers, id)
          /\ activeLayerId' = IF activeLayerId = id THEN FirstIdOrNull(layers) ELSE activeLayerId
  /\ returned' = Null
  /\ UNCHANGED <<historyVars, nextUuid>>

updateLayer(id, updates) ==
  /\ IF ThrowsOnEntries(layers)
     THEN UNCHANGED layers
     ELSE layers' = [k \in 1..Len(layers) |->
                       IF layers[k].id = id THEN Spread(layers[k], updates) ELSE layers[k]]
  /\ returned' = Null
  /\ UNCHANGED <<activeLayerId, historyVars, nextUuid>>

setActiveLayer(id) ==
  /\ activeLayerId' = id
  /\ returned' = Null
  /\ UNCHANGED <<layers, historyVars, nextUuid>>

reorderLayers(from, to) ==
  /\ Len(Reordered(layers, from, to)) <= MaxLayers
  /\ layers' = Reordered(layers, from, to)
  /\ returned' = Null
  /\ UNCHANGED <<activeLayerId, historyVars, nextUuid>>

\* the copy with the spread written last: { id: newId, name: ..., ...layer }
Duplicated_SpreadLast(layer, newId) ==
  Spread([id |-> newId, name |-> layer.name \o " copy"], layer)

\* { ...layer, id: newId, name: `${layer.name} copy` }
Duplicated(layer, newId) ==
  Spread(layer, [id |-> newId, name |-> layer.name \o " copy"])

duplicateLayer(id) ==
  LET k == FindStop(layers, id)
  IN  IF k = 0 \/ ~IsLayer(layers[k])
      THEN /\ returned' = Null
           /\ UNCHANGED <<layers, activeLayerId, historyVars, nextUuid>>
      ELSE /\ nextUuid <= MaxUuid
           /\ Len(layers) < MaxLayers
           /\ layers' = Append(layers, Duplicated(layers[k], uuid(nextUuid)))
           /\ activeLayerId' = uuid(nextUuid)
           /\ nextUuid' = nextUuid + 1
           /\ returned' = Null
           /\ UNCHANGED historyVars

flattenLayers ==
  /\ IF Len(layers) <= 1 \/ ~IsLayer(layers[1])
     THEN UNCHANGED <<layers, activeLayerId>>
     ELSE /\ layers' = Flattened(layers)
          /\ activeLayerId' = layers[1].id
  /\ returned' = Null
  /\ UNCHANGED <<historyVars, nextUuid>>

\* id arguments tried: every id in the array, the active id, and one in neither
LayerIds == LayerIdsOf(layers) \cup {ForeignId} \cup ({activeLayerId} \ {Null})

\* index arguments tried for reorderLayers on an array of length len:
\* every index in range, one negative, one past the end
ReorderIndexes(len) == (0 - 1)..len

AddLayer == UNCHANGED editorVars /\ \E partial \in Partials : addLayer(partial)
RemoveLayer == UNCHANGED editorVars /\ \E id \in LayerIds : removeLayer(id)
UpdateLayer == UNCHANGED editorVars /\ \E id \in LayerIds, updates \in Updates : updateLayer(id, updates)
SetActiveLayer == UNCHANGED editorVars /\ \E id \in LayerIds \cup {Null} : setActiveLayer(id)
ReorderLayers == UNCHANGED editorVars /\ \E from \in ReorderIndexes(Len(layers)), to \in ReorderIndexes(Len(layers)) : reorderLayers(from, to)
DuplicateLayer == UNCHANGED editorVars /\ \E id \in LayerIds : duplicateLayer(id)
FlattenLayers == flattenLayers /\ UNCHANGED editorVars

(* ------------------------------ document ------------------------------- *)

\* document.zoom is held in thousandths (1000 is the factor 1, 50 is 0.05,
\* 32000 is 32, 10 is 0.01), a product or quotient keeping its whole part.
TimesFactor(z, num, den) == (z * num) \div den

\* the zoom values a caller of setDocument passes: 1, 0.001 and 100
Zooms == {1000, 1, 100000}

setDocument(doc) ==
  /\ document' = Spread(document, doc)
  /\ returned' = Null

\* what a handler that only calls setDocument leaves alone
documentOnly ==
  UNCHANGED <<layerVars, historyVars, nextUuid, toolVars, selection, colorVars, spaceDown, loads, sceneVars, refVars>>

setActiveTool(tool) ==
  /\ activeTool' = tool
  /\ previousTool' = activeTool
  /\ returned' = Null

\* case 'zoom' of handleMouseDown: dir = altKey ? 1 / 1.25 : 1.25
zoomToolClick(altKey) ==
  LET scaled == IF altKey THEN TimesFactor(document.zoom, 4, 5) ELSE TimesFactor(document.zoom, 5, 4)
  IN  setDocument([zoom |-> Min(32000, Max(50, scaled))]) /\ documentOnly

\* EditorCanvas, 'mouse:wheel': factor = delta > 0 ? 1.1 : 1 / 1.1 with delta = -deltaY
handleWheel(deltaY, ctrlKey, metaKey) ==
  IF ~ctrlKey /\ ~metaKey
  THEN UNCHANGED vars
  ELSE LET scaled == IF 0 - deltaY > 0 THEN TimesFactor(document.zoom, 11, 10)
                                      ELSE TimesFactor(document.zoom, 10, 11)
       IN  setDocument([zoom |-> Min(32000, Max(50, scaled))]) /\ documentOnly

\* App.handleFitToScreen, the listener of 'photoslop:fitToScreen'
handleFitToScreen == setDocument([zoom |-> 1000]) /\ documentOnly

\* the keyboard shortcuts with Ctrl or Meta held: '=' and '+', '-', '0'
ShortcutKeys == {"=", "+", "-", "0"}
handleKeyDown(key) ==
  CASE key \in {"=", "+"} -> setDocument([zoom |-> Min(32000, TimesFactor(document.zoom, 5, 4))]) /\ documentOnly
    [] key = "-"          -> setDocument([zoom |-> Max(50, TimesFactor(document.zoom, 4, 5))]) /\ documentOnly
    [] key = "0"          -> handleFitToScreen
    [] OTHER              -> UNCHANGED vars

\* StatusBar
zoomIn == setDocument([zoom |-> Min(32000, TimesFactor(document.zoom, 5, 4))]) /\ documentOnly
zoomOut == setDocument([zoom |-> Max(50, TimesFactor(document.zoom, 4, 5))]) /\ documentOnly
zoomFit == setDocument([zoom |-> 1000]) /\ documentOnly

\* MenuBar, View: 'Zoom In', 'Zoom Out', 'Fit to Screen'
ViewItems == {"Zoom In", "Zoom Out", "Fit to Screen"}
viewMenuAction(label) ==
  CASE label = "Zoom In"       -> setDocument([zoom |-> Min(TimesFactor(document.zoom, 5, 4), 32000)]) /\ documentOnly
    [] label = "Zoom Out"      -> setDocument([zoom |-> Max(TimesFactor(document.zoom, 4, 5), 10)]) /\ documentOnly
    [] label = "Fit to Screen" -> handleFitToScreen

(* -------------------------------- scene -------------------------------- *)

\* a ref whose current is null
NullRef == [null |-> TRUE]

\* Longest canvas object list explored.
MaxObjects == 4

\* new fabric.Rect(options): the fields the handlers read or write; oid tells
\* one object from another
Rect(oid, left, top, width, height, options) ==
  Spread([oid |-> oid, left |-> left, top |-> top, width |-> width, height |-> height,
          scaleX |-> Num(1), scaleY |-> Num(1), angle |-> 0, flipX |-> FALSE, flipY |-> FALSE,
          type |-> "rect", fill |-> "rgb(0,0,0)", selectable |-> TRUE,
          isDocBackground |-> FALSE, isCropOverlay |-> FALSE, excludeFromExport |-> FALSE],
         options)

\* EditorCanvas, on mount: the white rectangle of the document
DocBackground(doc) ==
  Rect(0, Num(0), Num(0), doc.width, doc.height,
       [fill |-> "#ffffff", selectable |-> FALSE, isDocBackground |-> TRUE])

Refs == <<activeShape, selectionRect, cropRect>>
OidsOf(objs) == {objs[k].oid : k \in 1..Len(objs)}
\* the identity of the next object constructed
FreshOid ==
  LET used == OidsOf(objects) \cup {Refs[k].oid : k \in {j \in 1..3 : Refs[j] # NullRef}}
  IN  CHOOSE n \in 1..(Cardinality(used) + 1) : n \notin used

\* canvas.getObjects().find(o => o._isDocBackground === true): its index, 0 for undefined
FindBackground(objs) ==
  IF \E k \in 1..Len(objs) : objs[k].isDocBackground
  THEN CHOOSE k \in 1..Len(objs) :
         objs[k].isDocBackground /\ \A j \in 1..(k - 1) : ~objs[j].isDocBackground
  ELSE 0

\* canvas.remove(obj)
Removed(objs, obj) == SelectSeq(objs, LAMBDA o : o.oid # obj.oid)

\* obj.set(fields) as the canvas object list sees it
WithSet(objs, obj, fields) ==
  [k \in 1..Len(objs) |-> IF objs[k].oid = obj.oid THEN Spread(objs[k], fields) ELSE objs[k]]

\* what a ref points to once the canvas objects are objs: the object is shared
Deref(ref, objs) ==
  IF ref # NullRef /\ ref.oid \in OidsOf(objs)
  THEN objs[CHOOSE k \in 1..Len(objs) : objs[k].oid = ref.oid]
  ELSE ref

\* the effect of EditorCanvas on [fabricCanvas, doc.width, doc.height]:
\* bgRect.set({ width: doc.width, height: doc.height }) when there is a bgRect
BackgroundSized(objs, doc) ==
  IF FindBackground(objs) = 0 THEN objs
  ELSE [objs EXCEPT ![FindBackground(objs)] = Spread(@, [width |-> doc.width, height |-> doc.height])]

\* the canvas objects once the store's document is doc: the effect runs when
\* doc.width or doc.height is not what it was
AfterDocumentEffect(objs, doc) ==
  IF doc.width # document.width \/ doc.height # document.height
  THEN BackgroundSized(objs, doc)
  ELSE objs

\* removeCropOverlay(canvas)
WithoutCropOverlays(objs) == SelectSeq(objs, LAMBDA o : ~o.isCropOverlay)

\* canvas.toJSON(): the exported objects, without the properties toJSON does not list
toJSON(objs) ==
  LET exported == SelectSeq(objs, LAMBDA o : ~o.excludeFromExport)
  IN  [k \in 1..Len(exported) |->
         [f \in DOMAIN exported[k] \
                 {"oid", "selectable", "isDocBackground", "isCropOverlay", "excludeFromExport"}
            |-> exported[k][f]]]

(* --------------------------- CanvasToolHandler ------------------------- *)

\* scene points of pointer events
ScenePoints ==
  {[x |-> Num(10), y |-> Num(10)], [x |-> Num(60), y |-> Num(40)]}

\* what the store holds besides the document: no handler below writes it
\* unless it says so
layersAndLog == <<layerVars, historyVars, nextUuid, returned>>

\* o.selectable = flag for every object but the document background: the
\* 'move' case with TRUE, disableObjectInteraction and 'paint-bucket' with FALSE
WithSelectable(objs, flag) ==
  [k \in 1..Len(objs) |->
     IF objs[k].isDocBackground THEN objs[k] ELSE [objs[k] EXCEPT !.selectable = flag]]

\* the effect of CanvasToolHandler that runs when activeTool or foregroundColor
\* changed: removeCropOverlay(fabricCanvas), then the switch on the tool
AfterToolEffect(objs, tool, changed) ==
  IF changed THEN WithSelectable(WithoutCropOverlays(objs), tool = "move") ELSE objs

\* `if (activeTool !== 'move') fabricCanvas.discardActiveObject()` of the effect
ActiveAfterToolEffect(active, tool, changed) ==
  IF changed /\ tool # "move" THEN {} ELSE active

\* the effect as the canvas and the refs see it
toolEffect(tool, changed) ==
  LET objs == AfterToolEffect(objects, tool, changed)
  IN  /\ objects' = objs
      /\ activeShape' = Deref(activeShape, objs)
      /\ selectionRect' = Deref(selectionRect, objs)
      /\ cropRect' = Deref(cropRect, objs)
      /\ activeObject' = ActiveAfterToolEffect(activeObject, tool, changed)

setSelection(sel) ==
  /\ selection' = Spread(selection, sel)
  /\ returned' = Null

setForegroundColor(color) ==
  /\ foregroundColor' = color
  /\ returned' = Null

\* saveSnapshot(label) once the handler has left the canvas objects as objs
saveSnapshot(label, objs) == pushHistory(label, toJSON(objs), 0)

(* sampleColor *)

HexDigits == <<"0", "1", "2", "3", "4", "5", "6", "7", "8", "9", "a", "b", "c", "d", "e", "f">>
\* ((1 << 24) + (r << 16) + (g << 8) + b).toString(16).slice(1), two digits at a time
HexByte(n) == HexDigits[(n \div 16) + 1] \o HexDigits[(n % 16) + 1]
HexColor(data) == "#" \o HexByte(data[1]) \o HexByte(data[2]) \o HexByte(data[3])

\* what ctx.getImageData(px, py, 1, 1) finds at the pixel the click projects to:
\* whether the pixel lies on the canvas element, and its r, g, b, a there
PixelReads ==
  {[inside |-> FALSE, data |-> <<0, 0, 0, 0>>],
   [inside |-> TRUE,  data |-> <<0, 0, 0, 0>>],
   [inside |-> TRUE,  data |-> <<255, 128, 10, 255>>]}

\* the two copies of the tool handler in the sources
Copies == {"panels/HistoryPanel.tsx", "canvas/CanvasToolHandler.tsx"}

\* the color sampleColor passes to setForegroundColor, Null when it returns before
SampledColor(copy, read) ==
  IF copy = "panels/HistoryPanel.tsx"
  THEN IF ~read.inside THEN Null
       ELSE IF read.data[4] = 0 THEN Null
       ELSE HexColor(read.data)
  ELSE HexColor(IF read.inside THEN read.data ELSE <<0, 0, 0, 0>>)

sampleColor(copy, read) ==
  LET hex == SampledColor(copy, read)
  IN  IF hex = Null
      THEN UNCHANGED vars
      ELSE /\ setForegroundColor(hex)
           /\ toolEffect(activeTool, hex # foregroundColor)
           /\ UNCHANGED <<layerVars, historyVars, nextUuid, document, toolVars, selection,
                          backgroundColor, canvasDims, isDrawing, origin, spaceDown, loads>>

(* mouse:down *)

\* the store fields a gesture start leaves alone
gestureStartFrame ==
  UNCHANGED <<layersAndLog, document, toolVars, selection, colorVars, spaceDown, loads, canvasDims, activeObject>>

ShapeTools == {"shape-rect", "shape-ellipse", "shape-line"}
MarqueeTools == {"marquee-rect", "marquee-ellipse"}
GestureTools == ShapeTools \cup MarqueeTools \cup {"crop"}

\* the shape, marquee and crop cases: the object the case constructs at the
\* pointer (createShapeStub, createSelectionOverlay, createCropOverlay); an
\* ellipse and a line are held by their bounding box
GestureObject(tool, pointer) ==
  Rect(FreshOid, pointer.x, pointer.y, Num(0), Num(0),
       CASE tool = "shape-rect"    -> [fill |-> foregroundColor]
         [] tool = "shape-ellipse" -> [type |-> "ellipse", fill |-> foregroundColor]
         [] tool = "shape-line"    -> [type |-> "line"]
         [] tool = "crop"          -> [fill |-> "transparent", selectable |-> FALSE,
                                       excludeFromExport |-> TRUE, isCropOverlay |-> TRUE]
         [] OTHER                  -> [fill |-> "rgba(74, 158, 255, 0.15)", selectable |-> FALSE,
                                       excludeFromExport |-> TRUE])

(* handlePaintBucket *)

\* obj.containsPoint(point) for an object that is not rotated
ContainsPoint(obj, point) ==
  /\ ~Lt(point.x, obj.left)
  /\ ~Lt(Add(obj.left, Mul(obj.width, obj.scaleX)), point.x)
  /\ ~Lt(point.y, obj.top)
  /\ ~Lt(Add(obj.top, Mul(obj.height, obj.scaleY)), point.y)

\* the loop from the top of the stack down: the index of the first object that
\* is not the background and contains the point, 0 when the loop ends without one
TopMostAt(objs, point) ==
  LET hits == {k \in 1..Len(objs) : ~objs[k].isDocBackground /\ ContainsPoint(objs[k], point)}
  IN  IF hits = {} THEN 0 ELSE CHOOSE k \in hits : \A j \in hits : j <= k

ObjectWith(objs, oid) == objs[CHOOSE k \in 1..Len(objs) : objs[k].oid = oid]

\* the oids of the objects handlePaintBucket sets the fill of
PaintTarget(copy, objs, active, point) ==
  LET bg == FindBackground(objs)
      background == IF bg = 0 THEN {} ELSE {objs[bg].oid}
  IN  IF copy = "panels/HistoryPanel.tsx"
      THEN IF active # {} /\ \A oid \in active : ~ObjectWith(objs, oid).isDocBackground
           THEN active
           ELSE IF TopMostAt(objs, point) # 0
                THEN {objs[TopMostAt(objs, point)].oid}
                ELSE background
      ELSE IF active # {} THEN active ELSE background

\* obj.set('fill', fill) for the objects of target
Filled(objs, target, fill) ==
  [k \in 1..Len(objs) |->
     IF objs[k].oid \in target THEN [objs[k] EXCEPT !.fill = fill] ELSE objs[k]]

handlePaintBucket(copy, pointer) ==
  LET objs == Filled(objects, PaintTarget(copy, objects, activeObject, pointer), foregroundColor)
  IN  /\ objects' = objs
      /\ activeShape' = Deref(activeShape, objs)
      /\ selectionRect' = Deref(selectionRect, objs)
      /\ cropRect' = Deref(cropRect, objs)
      /\ saveSnapshot("Paint bucket", objs)
      /\ UNCHANGED <<document, toolVars, selection, colorVars, spaceDown, loads, canvasDims, activeObject,
                     isDrawing, origin>>

handleMouseDown(copy, pointer, altKey, read) ==
  CASE activeTool \in GestureTools ->
         LET obj == GestureObject(activeTool, pointer)
         IN  /\ Len(objects) < MaxObjects
             /\ isDrawing' = TRUE
             /\ origin' = pointer
             /\ objects' = Append(objects, obj)
             /\ activeShape' = IF activeTool \in ShapeTools THEN obj ELSE activeShape
             /\ selectionRect' = IF activeTool \in MarqueeTools THEN obj ELSE selectionRect
             /\ cropRect' = IF activeTool = "crop" THEN obj ELSE cropRect
             /\ gestureStartFrame
    [] activeTool = "eyedropper" -> sampleColor(copy, read)
    [] activeTool = "paint-bucket" -> handlePaintBucket(copy, pointer)
    [] activeTool = "gradient" ->
         /\ isDrawing' = TRUE
         /\ origin' = pointer
         /\ UNCHANGED <<layersAndLog, document, toolVars, selection, colorVars, spaceDown, loads, sceneVars,
                        activeShape, selectionRect, cropRect>>
    [] activeTool = "zoom" -> zoomToolClick(altKey)
    [] OTHER -> UNCHANGED vars

(* mouse:move *)

\* the object the active tool's case of handleMouseMove and handleMouseUp reads
GestureRef ==
  CASE activeTool \in ShapeTools -> activeShape
    [] activeTool \in MarqueeTools -> selectionRect
    [] activeTool = "crop" -> cropRect
    [] OTHER -> NullRef

\* left, top, width and height as handleMouseMove computes them from the
\* origin and the pointer
BoxBetween(from, to) ==
  [left   |-> MathMin(from.x, to.x),
   top    |-> MathMin(from.y, to.y),
   width  |-> MathAbs(Sub(to.x, from.x)),
   height |-> MathAbs(Sub(to.y, from.y))]

\* { left, top, width, height } with the origin taken as the left top corner
DragBox_FromOrigin(pointer) ==
  [left   |-> origin.x,
   top    |-> origin.y,
   width  |-> Sub(pointer.x, origin.x),
   height |-> Sub(pointer.y, origin.y)]

\* { left, top, width, height } of handleMouseMove
DragBox(pointer) == BoxBetween(origin, pointer)

handleMouseMove(pointer) ==
  IF activeTool \in {"brush", "eraser"} \/ ~isDrawing \/ GestureRef = NullRef
  THEN UNCHANGED vars
  ELSE /\ objects' = WithSet(objects, GestureRef, DragBox(pointer))
       /\ activeShape' = IF activeTool \in ShapeTools THEN Spread(activeShape, DragBox(pointer)) ELSE activeShape
       /\ selectionRect' = IF activeTool \in MarqueeTools
                           THEN Spread(selectionRect, DragBox(pointer)) ELSE selectionRect
       /\ cropRect' = IF activeTool = "crop" THEN Spread(cropRect, DragBox(pointer)) ELSE cropRect
       /\ UNCHANGED <<layersAndLog, document, toolVars, selection, colorVars, spaceDown, loads, canvasDims, activeObject, isDrawing, origin>>

(* applyCrop *)

\* `if (cw < 1 || ch < 1) return`
CropRejected(rect) == Lt(rect.width, Num(1)) \/ Lt(rect.height, Num(1))

\* the forEach of applyCrop: every canvas object moved by (-cl, -ct)
MovedBy(objs, cl, ct) ==
  [k \in 1..Len(objs) |->
     Spread(objs[k], [left |-> Sub(objs[k].left, cl), top |-> Sub(objs[k].top, ct)])]

\* the canvas objects applyCrop leaves when it does not return early
CroppedObjects(objs, rect) ==
  LET moved == MovedBy(objs, rect.left, rect.top)
      b     == FindBackground(moved)
  IN  IF b = 0 THEN moved
      ELSE [moved EXCEPT ![b] = Spread(@, [left |-> Num(0), top |-> Num(0),
                                           width |-> rect.width, height |-> rect.height])]

\* the argument applyCrop passes to setDocument
CroppedDocument(rect) ==
  [width |-> MathRound(rect.width), height |-> MathRound(rect.height)]

(* mouse:up *)

(* applyGradient *)

\* new fabric.Gradient({...}) for the target
Gradient(target, start, end) ==
  [type |-> "linear",
   coords |-> [x1 |-> Sub(start.x, target.left), y1 |-> Sub(start.y, target.top),
               x2 |-> Sub(end.x, target.left), y2 |-> Sub(end.y, target.top)],
   colorStops |-> <<foregroundColor, backgroundColor>>]

\* the canvas objects after applyGradient: `if (!target) return`
GradientApplied(objs, active, start, end) ==
  [k \in 1..Len(objs) |->
     IF objs[k].oid \in active
     THEN [objs[k] EXCEPT !.fill = Gradient(objs[k], start, end)]
     ELSE objs[k]]

handleMouseUp(pointer) ==
  IF activeTool \in {"brush", "eraser"} \/ ~isDrawing
  THEN UNCHANGED vars
  ELSE
    /\ isDrawing' = FALSE
    /\ CASE activeTool \in ShapeTools ->
              /\ activeShape' = NullRef
              /\ saveSnapshot("Draw shape", objects)
              /\ UNCHANGED <<document, toolVars, selection, colorVars, spaceDown, loads, sceneVars, origin, selectionRect, cropRect>>
         [] activeTool \in MarqueeTools /\ selectionRect # NullRef ->
              /\ setSelection([type   |-> IF activeTool = "marquee-rect" THEN "rect" ELSE "ellipse",
                               path   |-> <<<<selectionRect.left, selectionRect.top>>,
                                            <<Add(selectionRect.left, selectionRect.width),
                                              Add(selectionRect.top, selectionRect.height)>>>>,
                               active |-> TRUE])
              /\ objects' = Removed(objects, selectionRect)
              /\ selectionRect' = NullRef
              /\ UNCHANGED <<layerVars, historyVars, nextUuid, document, toolVars, colorVars, spaceDown, loads,
                             canvasDims, activeObject, origin, activeShape, cropRect>>
         [] activeTool = "crop" /\ cropRect # NullRef ->
              LET applied == IF CropRejected(cropRect) THEN objects ELSE CroppedObjects(objects, cropRect)
                  left_   == Removed(applied, cropRect)
                  doc     == IF CropRejected(cropRect) THEN document
                             ELSE Spread(document, CroppedDocument(cropRect))
                  objs    == AfterDocumentEffect(left_, doc)
              IN  /\ objects' = objs
                  /\ document' = doc
                  /\ cropRect' = NullRef
                  /\ activeShape' = Deref(activeShape, objs)
                  /\ selectionRect' = Deref(selectionRect, objs)
                  /\ saveSnapshot("Crop", left_)
                  /\ UNCHANGED <<toolVars, selection, colorVars, spaceDown, loads, canvasDims, activeObject, origin>>
         [] activeTool = "gradient" ->
              LET objs == GradientApplied(objects, activeObject, origin, pointer)
              IN  /\ objects' = objs
                  /\ activeShape' = Deref(activeShape, objs)
                  /\ selectionRect' = Deref(selectionRect, objs)
                  /\ cropRect' = Deref(cropRect, objs)
                  /\ saveSnapshot("Apply gradient", objs)
                  /\ UNCHANGED <<document, toolVars, selection, colorVars, spaceDown, loads, canvasDims,
                                 activeObject, origin>>
         [] OTHER ->
              UNCHANGED <<layersAndLog, document, toolVars, selection, colorVars, spaceDown, loads, sceneVars,
                          origin, activeShape, selectionRect, cropRect>>

(* the Escape listener of CanvasToolHandler *)

clearSelection ==
  /\ selection' = [type |-> "none", feather |-> 0, active |-> FALSE]
  /\ returned' = Null

handleEscape ==
  LET objs == WithoutCropOverlays(objects)
  IN  /\ clearSelection
      /\ objects' = objs
      /\ activeObject' = {}
      /\ UNCHANGED <<layerVars, historyVars, nextUuid, document, toolVars, colorVars, spaceDown, loads,
                     canvasDims, refVars>>

\* Ctrl+A and Ctrl+D of useKeyboardShortcuts (the same in both copies): the
\* store's selection is all they write
selectionOnly ==
  UNCHANGED <<layerVars, historyVars, nextUuid, document, toolVars, colorVars, sceneVars, refVars,
              spaceDown, loads>>

ctrlA == setSelection([type |-> "rect", active |-> TRUE]) /\ selectionOnly
ctrlD == clearSelection /\ selectionOnly

(* the toolbar and the letter shortcuts: setActiveTool, then the effect *)

\* store.setActiveTool(tool) and the effect it triggers
toolBecomes(tool) ==
  /\ setActiveTool(tool)
  /\ toolEffect(tool, tool # activeTool)
  /\ UNCHANGED <<layerVars, historyVars, nextUuid, document, selection, colorVars,
                 canvasDims, isDrawing, origin, loads>>

selectTool(tool) == toolBecomes(tool) /\ UNCHANGED spaceDown

(* the space key: useKeyboardShortcuts and the listeners of EditorCanvas *)

\* the two copies of useKeyboardShortcuts
ShortcutCopies == {"unnamed/part_001", "unnamed/part_002"}

\* <<activeTool, previousTool>> after setActiveTool(tool)
ToolsAfter(tools, tool) == <<tool, tools[1]>>
\* ... after a keydown of the space key, after its keyup
ToolsAfterSpaceDown(tools) == ToolsAfter(tools, "hand")
ToolsAfterSpaceUp(tools) == ToolsAfter(tools, tools[2])

\* what the keydown and keyup listeners of EditorCanvas leave alone
spaceRefOnly ==
  UNCHANGED <<layersAndLog, document, toolVars, selection, colorVars, sceneVars, refVars, loads>>

\* keydown of ' ' without ctrl; repeat is the event's auto-repeat flag, set
\* only while the key is held. EditorCanvas sets spaceDownRef; the copy of
\* useKeyboardShortcuts in part_002 also calls setActiveTool('hand'), the one
\* in part_001 has no case for the key
spaceKeyDown(copy, repeat) ==
  /\ repeat = spaceDown
  /\ spaceDown' = (IF ~repeat THEN TRUE ELSE spaceDown)
  /\ IF copy = "unnamed/part_002" THEN toolBecomes("hand") ELSE spaceRefOnly

\* keyup of ' '
spaceKeyUp(copy) ==
  /\ spaceDown
  /\ spaceDown' = FALSE
  /\ IF copy = "unnamed/part_002" THEN toolBecomes(previousTool) ELSE spaceRefOnly

(* ------------------- the consumers of undo and redo -------------------- *)

\* Most loadFromJSON calls in flight at a time.
MaxLoads == 2

\* the calls of loops that run to the target index inclusive
JumpCalls_Inclusive(current, targetIndex) ==
  IF targetIndex < current THEN [i \in 1..(current - targetIndex + 1) |-> "undo"]
  ELSE IF targetIndex > current THEN [i \in 1..(targetIndex - current + 1) |-> "redo"]
  ELSE <<>>

\* the calls the loops of handleJumpToState issue, in order
JumpCalls(current, targetIndex) ==
  IF targetIndex < current THEN [i \in 1..(current - targetIndex) |-> "undo"]
  ELSE IF targetIndex > current THEN [i \in 1..(targetIndex - current) |-> "redo"]
  ELSE <<>>

\* historyIndex after the calls, one after the other, on a log of len entries
RECURSIVE IndexAfter(_, _, _)
IndexAfter(index, len, calls) ==
  IF calls = <<>> THEN index
  ELSE IndexAfter(IF Head(calls) = "undo" THEN UndoIndex(index) ELSE RedoIndex(index, len),
                  len, Tail(calls))

\* a click on entry targetIndex of the History panel
handleJumpToState(targetIndex) ==
  LET calls == JumpCalls(historyIndex, targetIndex)
  IN  /\ historyIndex' = IndexAfter(historyIndex, Len(history), calls)
      /\ returned' = (IF calls = <<>> THEN returned ELSE Null)
      /\ UNCHANGED <<layerVars, history, maxHistory, nextUuid>>

\* Ctrl+Z and Ctrl+Shift+Z: both copies call undo() or redo(); part_001 then
\* queues a microtask that reads history[historyIndex] and, when the entry has
\* a snapshot, starts canvas.loadFromJSON(JSON.parse(entry.snapshot))
ctrlZ(copy, shift) ==
  /\ IF shift THEN redo ELSE undo
  /\ IF copy = "unnamed/part_001" /\ historyIndex' \in 0..(Len(history) - 1)
     THEN /\ Len(loads) < MaxLoads
          /\ loads' = Append(loads, history[historyIndex' + 1].snapshot)
     ELSE UNCHANGED loads
  /\ UNCHANGED <<document, toolVars, selection, colorVars, sceneVars, refVars, spaceDown>>

\* the oids of the refs of CanvasToolHandler that hold an object
HeldOids == {Refs[k].oid : k \in {j \in 1..3 : Refs[j] # NullRef}}

\* the k-th object a load creates is a new object
LoadedOid(k) ==
  LET free == (1..(k + 3)) \ HeldOids
  IN  CHOOSE n \in free : Cardinality({m \in free : m < n}) = k - 1

\* the canvas objects loadFromJSON leaves: one new object per serialized
\* object, with the defaults for every property canvas.toJSON() did not write
Loaded(snapshot) ==
  [k \in 1..Len(snapshot) |->
     Spread(snapshot[k], [oid |-> LoadedOid(k), selectable |-> TRUE, isDocBackground |-> FALSE,
                          isCropOverlay |-> FALSE, excludeFromExport |-> FALSE])]

\* the promise of the i-th loadFromJSON in flight resolves: the canvas holds the
\* loaded objects and no active object; the refs keep what they held
loadCompletes(i) ==
  /\ i \in 1..Len(loads)
  /\ objects' = Loaded(loads[i])
  /\ activeObject' = {}
  /\ loads' = [k \in 1..(Len(loads) - 1) |-> IF k < i THEN loads[k] ELSE loads[k + 1]]
  /\ UNCHANGED <<layersAndLog, document, toolVars, selection, colorVars, spaceDown, canvasDims, refVars>>

(* ------------------------- whole-canvas commands ----------------------- *)

\* the canvas objects become objs; the refs keep pointing at their objects
canvasObjectsBecome(objs) ==
  /\ objects' = objs
  /\ activeShape' = Deref(activeShape, objs)
  /\ selectionRect' = Deref(selectionRect, objs)
  /\ cropRect' = Deref(cropRect, objs)
  /\ UNCHANGED <<isDrawing, origin>>

\* what a command on the canvas objects alone leaves as it is
canvasObjectsOnly ==
  UNCHANGED <<layersAndLog, document, toolVars, selection, colorVars, spaceDown, loads, canvasDims, activeObject>>

Directions == {"horizontal", "vertical"}

\* the flag a flip in the given direction toggles
FlipFlag(direction) == IF direction = "horizontal" THEN "flipX" ELSE "flipY"

\* the forEach of App.handleFlip
HandleFlipped(objs, direction) ==
  [k \in 1..Len(objs) |->
     [objs[k] EXCEPT ![FlipFlag(direction)] = ~objs[k][FlipFlag(direction)]]]

\* App.handleFlip, the listener of 'photoslop:flip'
handleFlip(direction) ==
  /\ canvasObjectsBecome(HandleFlipped(objects, direction))
  /\ canvasObjectsOnly

\* centerX and centerY of flipCanvas
FlipCenter(objs, dims) ==
  LET b == FindBackground(objs)
  IN  IF b # 0
      THEN [x |-> Div(objs[b].width, Num(2)), y |-> Div(objs[b].height, Num(2))]
      ELSE [x |-> Div(dims.width, Num(2)), y |-> Div(dims.height, Num(2))]

\* 2 * center - position - extent * scale
Mirrored(center, position, extent, scale) ==
  Sub(Sub(Mul(Num(2), center), position), Mul(extent, scale))

\* flipCanvas with the flag set instead of toggled
FlippedCanvas_FlagSet(objs, dims, direction) ==
  LET c == FlipCenter(objs, dims)
  IN  [k \in 1..Len(objs) |->
         IF objs[k].isDocBackground THEN objs[k]
         ELSE IF direction = "horizontal"
         THEN Spread(objs[k], [left  |-> Mirrored(c.x, objs[k].left, objs[k].width, objs[k].scaleX),
                               flipX |-> TRUE])
         ELSE Spread(objs[k], [top   |-> Mirrored(c.y, objs[k].top, objs[k].height, objs[k].scaleY),
                               flipY |-> TRUE])]

\* the canvas objects flipCanvas leaves
FlippedCanvas(objs, dims, direction) ==
  LET c == FlipCenter(objs, dims)
  IN  [k \in 1..Len(objs) |->
         IF objs[k].isDocBackground THEN objs[k]
         ELSE IF direction = "horizontal"
         THEN Spread(objs[k], [left  |-> Mirrored(c.x, objs[k].left, objs[k].width, objs[k].scaleX),
                               flipX |-> ~objs[k].flipX])
         ELSE Spread(objs[k], [top   |-> Mirrored(c.y, objs[k].top, objs[k].height, objs[k].scaleY),
                               flipY |-> ~objs[k].flipY])]

\* utils/canvas.ts flipCanvas(canvas, direction)
flipCanvas(direction) ==
  /\ canvasObjectsBecome(FlippedCanvas(objects, canvasDims, direction))
  /\ canvasObjectsOnly

(* rotation *)

\* Largest |angle| of an object explored: angle is a running sum of the
\* degrees of every rotation.
MaxAngle == 360

\* a % b of JavaScript, for b > 0
Rem(a, b) == Sign(a) * (Abs(a) % b)
\* ((degrees % 360) + 360) % 360
Normalized(degrees) == Rem(Rem(degrees, 360) + 360, 360)

\* half of width * scaleX and of height * scaleY
HalfExtent(obj) ==
  [x |-> Div(Mul(obj.width, obj.scaleX), Num(2)), y |-> Div(Mul(obj.height, obj.scaleY), Num(2))]

\* a vector turned by a multiple of 90 degrees, y pointing down
Turned(v, degrees) ==
  CASE Normalized(degrees) = 90  -> [x |-> Sub(Num(0), v.y), y |-> v.x]
    [] Normalized(degrees) = 180 -> [x |-> Sub(Num(0), v.x), y |-> Sub(Num(0), v.y)]
    [] Normalized(degrees) = 270 -> [x |-> v.y, y |-> Sub(Num(0), v.x)]
    [] OTHER                     -> v

\* obj.getCenterPoint() of an object positioned by its left top corner
CenterPoint(obj) ==
  [x |-> Add(obj.left, Turned(HalfExtent(obj), obj.angle).x),
   y |-> Add(obj.top, Turned(HalfExtent(obj), obj.angle).y)]

\* obj.rotate(angle): the angle is set with the center kept in place
RotatedObject(obj, angle) ==
  LET c    == CenterPoint(obj)
      half == Turned(HalfExtent(obj), angle)
  IN  Spread(obj, [angle |-> angle, left |-> Sub(c.x, half.x), top |-> Sub(c.y, half.y)])

\* the forEach of App.handleRotate
HandleRotated(objs, degrees) ==
  [k \in 1..Len(objs) |-> RotatedObject(objs[k], objs[k].angle + degrees)]

AnglesWithin(objs) == \A k \in 1..Len(objs) : Abs(objs[k].angle) <= MaxAngle

\* App.handleRotate
handleRotate(degrees) ==
  /\ AnglesWithin(HandleRotated(objects, degrees))
  /\ canvasObjectsBecome(HandleRotated(objects, degrees))
  /\ canvasObjectsOnly

\* the detail objects the Image menu dispatches with 'photoslop:rotate'
RotateDetails == {[angle |-> 90], [angle |-> 0 - 90], [angle |-> 180]}
\* the listener: handleRotate(detail?.degrees || 90)
onRotate(detail) ==
  handleRotate(IF "degrees" \in DOMAIN detail /\ detail.degrees # 0 THEN detail.degrees ELSE 90)

\* rotateCanvas with case 90 taking newCx as case 180 does
RotatedCanvas_Case90MirrorsX(objs, dims, degrees) ==
  LET b    == FindBackground(objs)
      docW == IF b # 0 THEN objs[b].width ELSE dims.width
      docH == IF b # 0 THEN objs[b].height ELSE dims.height
      turned ==
        [k \in 1..Len(objs) |->
           IF objs[k].isDocBackground THEN objs[k]
           ELSE LET half == HalfExtent(objs[k])
                    cx   == Add(objs[k].left, half.x)
                    cy   == Add(objs[k].top, half.y)
                    new  == CASE Normalized(degrees) = 90  -> [x |-> Sub(docW, cx), y |-> cx]
                              [] Normalized(degrees) = 180 -> [x |-> Sub(docW, cx), y |-> Sub(docH, cy)]
                              [] Normalized(degrees) = 270 -> [x |-> cy, y |-> Sub(docW, cx)]
                              [] OTHER                     -> [x |-> cx, y |-> cy]
                IN  Spread(objs[k], [left  |-> Sub(new.x, half.x),
                                     top   |-> Sub(new.y, half.y),
                                     angle |-> objs[k].angle + degrees])]
  IN  IF Normalized(degrees) \in {90, 270} /\ b # 0
      THEN [turned EXCEPT ![b] = Spread(@, [left |-> Num(0), top |-> Num(0),
                                            width |-> docH, height |-> docW])]
      ELSE turned

\* the canvas objects rotateCanvas leaves, for degrees a multiple of 90 (the
\* default case then has cos = 1 and sin = 0)
RotatedCanvas(objs, dims, degrees) ==
  LET b    == FindBackground(objs)
      docW == IF b # 0 THEN objs[b].width ELSE dims.width
      docH == IF b # 0 THEN objs[b].height ELSE dims.height
      turned ==
        [k \in 1..Len(objs) |->
           IF objs[k].isDocBackground THEN objs[k]
           ELSE LET half == HalfExtent(objs[k])
                    cx   == Add(objs[k].left, half.x)
                    cy   == Add(objs[k].top, half.y)
                    new  == CASE Normalized(degrees) = 90  -> [x |-> Sub(docH, cy), y |-> cx]
                              [] Normalized(degrees) = 180 -> [x |-> Sub(docW, cx), y |-> Sub(docH, cy)]
                              [] Normalized(degrees) = 270 -> [x |-> cy, y |-> Sub(docW, cx)]
                              [] OTHER                     -> [x |-> cx, y |-> cy]
                IN  Spread(objs[k], [left  |-> Sub(new.x, half.x),
                                     top   |-> Sub(new.y, half.y),
                                     angle |-> objs[k].angle + degrees])]
  IN  IF Normalized(degrees) \in {90, 270} /\ b # 0
      THEN [turned EXCEPT ![b] = Spread(@, [left |-> Num(0), top |-> Num(0),
                                            width |-> docH, height |-> docW])]
      ELSE turned

\* the degrees rotateCanvas is explored with
Degrees == {90, 180, 0 - 90}

\* utils/canvas.ts rotateCanvas(canvas, degrees)
rotateCanvas(degrees) ==
  /\ AnglesWithin(RotatedCanvas(objects, canvasDims, degrees))
  /\ canvasObjectsBecome(RotatedCanvas(objects, canvasDims, degrees))
  /\ canvasObjectsOnly

(* -------------------------------- resize ------------------------------- *)

\* scale factors are followed while numerator and denominator stay within this
MaxScale == 2

\* Number(e.target.value) of the dialog's two number fields: an emptied field
\* is 0, and min={1} does not stop a typed value
Widths == {Num(0), Num(960), Num(1920)}
Heights == {Num(-1080), Num(1080)}
ResizeModes == {"image", "canvas"}

Dimensions(width, height) == [width |-> width, height |-> height]

ScaleWithin(a) == Abs(a[1]) <= MaxScale /\ a[2] <= MaxScale
ScalesWithin(objs) ==
  \A k \in 1..Len(objs) : ScaleWithin(objs[k].scaleX) /\ ScaleWithin(objs[k].scaleY)

\* the forEach of handleApply: (obj.scaleX || 1) * scaleX, (obj.left || 0) * scaleX
ImageResized(objs, scaleX, scaleY) ==
  [k \in 1..Len(objs) |->
     [objs[k] EXCEPT !.scaleX = Mul(Or(@, Num(1)), scaleX),
                     !.scaleY = Mul(Or(@, Num(1)), scaleY),
                     !.left = Mul(Or(@, Num(0)), scaleX),
                     !.top = Mul(Or(@, Num(0)), scaleY)]]

\* ImageResizeDialog.handleApply
handleApply(width, height, mode) ==
  LET scaleX == Div(width, document.width)
      scaleY == Div(height, document.height)
      scaled == IF mode = "image" THEN ImageResized(objects, scaleX, scaleY) ELSE objects
      objs == AfterDocumentEffect(scaled, Dimensions(width, height))
  IN  /\ ScalesWithin(objs)
      /\ canvasObjectsBecome(objs)
      /\ canvasDims' = Dimensions(width, height)
      /\ setDocument(Dimensions(width, height))
      /\ UNCHANGED <<layerVars, historyVars, nextUuid, toolVars, selection, colorVars, spaceDown, loads, activeObject>>

\* the forEach of resizeCanvas: (obj.scaleX ?? 1) * sx, (obj.left ?? 0) * sx
CanvasResized(objs, sx, sy) ==
  [k \in 1..Len(objs) |->
     [objs[k] EXCEPT !.scaleX = Mul(@, sx),
                     !.scaleY = Mul(@, sy),
                     !.left = Mul(@, sx),
                     !.top = Mul(@, sy)]]

\* resizeCanvas of the canvas utilities
resizeCanvas(width, height, scaleContent) ==
  LET oldW == canvasDims.width
      oldH == canvasDims.height
      objs == IF scaleContent /\ Lt(Num(0), oldW) /\ Lt(Num(0), oldH)
              THEN CanvasResized(objects, Div(width, oldW), Div(height, oldH))
              ELSE objects
  IN  /\ ScalesWithin(objs)
      /\ canvasDims' = Dimensions(width, height)
      /\ canvasObjectsBecome(objs)
      /\ UNCHANGED <<layersAndLog, document, toolVars, selection, colorVars, spaceDown, loads, activeObject>>

(* ------------------------------- system -------------------------------- *)

Init ==
  /\ layers = <<>>
  /\ activeLayerId = Null
  /\ returned = Null
  /\ history = <<>>
  /\ historyIndex = -1
  /\ maxHistory = MaxHistory
  /\ nextUuid = 1
  /\ document = [width |-> Num(1920), height |-> Num(1080), name |-> "Untitled", zoom |-> 1000]
  /\ activeTool = "move"
  /\ previousTool = "move"
  /\ selection = [type |-> "none", feather |-> 0, active |-> FALSE]
  /\ foregroundColor = "#000000"
  /\ backgroundColor = "#ffffff"
  /\ objects = <<DocBackground(document)>>
  /\ canvasDims = [width |-> document.width, height |-> document.height]
  /\ isDrawing = FALSE
  /\ origin = [x |-> Num(0), y |-> Num(0)]
  /\ activeShape = NullRef
  /\ selectionRect = NullRef
  /\ cropRect = NullRef
  /\ activeObject = {}
  /\ spaceDown = FALSE
  /\ loads = <<>>

\* Most rectangles drawn before a whole-canvas command is explored.
MaxShapes == 2

\* the boxes a shape-rect gesture between two scene points leaves
DrawnBoxes == {BoxBetween(p, q) : p \in ScenePoints, q \in ScenePoints}
ShapeLists == UNION {[1..n -> DrawnBoxes] : n \in 0..MaxShapes}

\* the canvas objects after one shape-rect gesture per box
DrawnObjects(boxes) ==
  <<DocBackground([width |-> Num(1920), height |-> Num(1080)])>> \o
  [k \in 1..Len(boxes) |->
     Rect(k, boxes[k].left, boxes[k].top, boxes[k].width, boxes[k].height,
          [fill |-> "#000000"])]

\* the log after those gestures: one 'Draw shape' entry each
DrawnHistory(boxes) ==
  [k \in 1..Len(boxes) |->
     [id |-> uuid(k), label |-> "Draw shape", timestamp |-> 0,
      snapshot |-> toJSON(SubSeq(DrawnObjects(boxes), 1, k + 1))]]

\* the editor after the user drew up to MaxShapes rectangles on the fresh
\* document (tool 'shape-rect', one down / move / up per rectangle) and went
\* back to the move tool
InitDrawn ==
  \E boxes \in ShapeLists :
    /\ layers = <<>>
    /\ activeLayerId = Null
    /\ returned = Null
    /\ history = DrawnHistory(boxes)
    /\ historyIndex = Len(boxes) - 1
    /\ maxHistory = MaxHistory
    /\ nextUuid = Len(boxes) + 1
    /\ document = [width |-> Num(1920), height |-> Num(1080), name |-> "Untitled", zoom |-> 1000]
    /\ activeTool = "move"
    /\ previousTool = IF boxes = <<>> THEN "move" ELSE "shape-rect"
    /\ selection = [type |-> "none", feather |-> 0, active |-> FALSE]
    /\ foregroundColor = "#000000"
    /\ backgroundColor = "#ffffff"
    /\ objects = DrawnObjects(boxes)
    /\ canvasDims = [width |-> document.width, height |-> document.height]
    /\ isDrawing = FALSE
    /\ origin = IF boxes = <<>> THEN [x |-> Num(0), y |-> Num(0)]
                ELSE [x |-> boxes[Len(boxes)].left, y |-> boxes[Len(boxes)].top]
    /\ activeShape = NullRef
    /\ selectionRect = NullRef
    /\ cropRect = NullRef
    /\ activeObject = {}
    /\ spaceDown = FALSE
    /\ loads = <<>>

NextHistory == PushHistory \/ Undo \/ Redo

SpecHistory == Init /\ [][NextHistory]_vars

NextLayers ==
  \/ AddLayer
  \/ RemoveLayer
  \/ UpdateLayer
  \/ SetActiveLayer
  \/ ReorderLayers
  \/ DuplicateLayer
  \/ FlattenLayers

SpecLayers == Init /\ [][NextLayers]_vars

\* pointer and wheel events on the canvas
MouseDown ==
  \E copy \in Copies, pointer \in ScenePoints, altKey \in BOOLEAN, read \in PixelReads :
    handleMouseDown(copy, pointer, altKey, read)
MouseMove == \E pointer \in ScenePoints : handleMouseMove(pointer)
MouseUp == \E pointer \in ScenePoints : handleMouseUp(pointer)
Wheel == \E deltaY \in {0 - 100, 100}, ctrlKey \in BOOLEAN : handleWheel(deltaY, ctrlKey, FALSE)

\* the zoom commands
SetDocumentZoom == \E z \in Zooms : setDocument([zoom |-> z]) /\ documentOnly
SelectZoomTool == \E tool \in {"move", "zoom"} : selectTool(tool)
\* a click with or without the modifier; the zoom case reads nothing else of the event
ZoomClick ==
  \E copy \in Copies, altKey \in BOOLEAN :
    handleMouseDown(copy, [x |-> Num(10), y |-> Num(10)], altKey, [inside |-> TRUE, data |-> <<0, 0, 0, 0>>])
KeyDown == \E key \in ShortcutKeys : handleKeyDown(key)
StatusBarZoom == zoomIn \/ zoomOut \/ zoomFit
ViewMenu == \E label \in ViewItems : viewMenuAction(label)

NextZoom ==
  \/ SetDocumentZoom
  \/ SelectZoomTool
  \/ ZoomClick
  \/ Wheel
  \/ KeyDown
  \/ StatusBarZoom
  \/ ViewMenu

SpecZoom == Init /\ [][NextZoom]_vars

\* a pointer event under a tool that reads only the pointer of it
PointerDown ==
  \E copy \in Copies, pointer \in ScenePoints :
    handleMouseDown(copy, pointer, FALSE, [inside |-> FALSE, data |-> <<0, 0, 0, 0>>])

\* drawing rectangles
SelectShapeTool == \E tool \in {"move", "shape-rect"} : selectTool(tool)

NextDraw ==
  \/ SelectShapeTool
  \/ PointerDown
  \/ MouseMove
  \/ MouseUp

SpecDraw == Init /\ [][NextDraw]_vars

\* the flip commands on a drawn scene
HandleFlip == \E direction \in Directions : handleFlip(direction)
FlipCanvas == \E direction \in Directions : flipCanvas(direction)

NextFlip == HandleFlip \/ FlipCanvas

SpecFlip == InitDrawn /\ [][NextFlip]_vars

\* a scene point between two pixels, as the pointer has at a zoom other than 1
HalfPixelPoints == {[x |-> Frac(121, 2), y |-> Num(40)]}

\* crop gestures on a drawn scene
SelectCropTool == \E tool \in {"move", "crop"} : selectTool(tool)
MouseMoveBetweenPixels == \E pointer \in HalfPixelPoints : handleMouseMove(pointer)

NextCrop ==
  \/ SelectCropTool
  \/ PointerDown
  \/ MouseMove
  \/ MouseMoveBetweenPixels
  \/ MouseUp

SpecCrop == InitDrawn /\ [][NextCrop]_vars

\* marquee gestures and eyedropper clicks on the fresh editor
SelectSelectionTool == \E tool \in MarqueeTools \cup {"move", "eyedropper"} : selectTool(tool)

NextSelect ==
  \/ SelectSelectionTool
  \/ MouseDown
  \/ MouseMove
  \/ MouseUp

SpecSelect == Init /\ [][NextSelect]_vars

\* marquee gestures between the select-all and deselect shortcuts
PickMarqueeTool == \E tool \in MarqueeTools : selectTool(tool)
CtrlA == ctrlA
CtrlD == ctrlD

NextSelectAll ==
  \/ PickMarqueeTool
  \/ PointerDown
  \/ MouseMove
  \/ MouseUp
  \/ CtrlA
  \/ CtrlD

SpecSelectAll == Init /\ [][NextSelectAll]_vars

\* the space key between tool changes and gestures on the fresh editor
SpaceTools == {"move", "hand", "shape-rect"}
SelectAnyTool == \E tool \in SpaceTools : selectTool(tool)
SpaceKeyDown == \E copy \in ShortcutCopies, repeat \in BOOLEAN : spaceKeyDown(copy, repeat)
SpaceKeyUp == \E copy \in ShortcutCopies : spaceKeyUp(copy)

NextSpace ==
  \/ SelectAnyTool
  \/ SpaceKeyDown
  \/ SpaceKeyUp
  \/ PointerDown
  \/ MouseMove
  \/ MouseUp

SpecSpace == Init /\ [][NextSpace]_vars

\* the Escape key between crop and marquee gestures on the fresh editor
OverlayTools == {"crop", "marquee-rect"}
SelectOverlayTool == \E tool \in OverlayTools : selectTool(tool)
\* every drag starts at the left top corner of the document ...
PressAtOrigin ==
  \E copy \in Copies :
    handleMouseDown(copy, [x |-> Num(0), y |-> Num(0)], FALSE, [inside |-> FALSE, data |-> <<0, 0, 0, 0>>])
\* ... and is dragged, if at all, to the same other point
DragAcross == handleMouseMove([x |-> Num(60), y |-> Num(40)])
Escape == handleEscape

NextEscape ==
  \/ SelectOverlayTool
  \/ PressAtOrigin
  \/ DragAcross
  \/ MouseUp
  \/ Escape

SpecEscape == Init /\ [][NextEscape]_vars

\* tool changes between and during shape and marquee drags on the fresh editor
DragTools == {"move", "shape-rect", "marquee-rect"}
SelectDragTool == \E tool \in DragTools : selectTool(tool)

NextToolChange ==
  \/ SelectDragTool
  \/ PressAtOrigin
  \/ DragAcross
  \/ MouseUp

SpecToolChange == Init /\ [][NextToolChange]_vars

\* paint-bucket clicks, gradient drags and eyedropper clicks on a drawn scene,
\* at a point inside the widest drawn rectangle and at a point outside every one
PaintPoints == {[x |-> Num(30), y |-> Num(20)], [x |-> Num(100), y |-> Num(100)]}
PaintTools == {"move", "eyedropper", "paint-bucket", "gradient"}
SelectPaintTool == \E tool \in PaintTools : selectTool(tool)
PaintClick ==
  \E copy \in Copies, pointer \in PaintPoints, read \in PixelReads :
    handleMouseDown(copy, pointer, FALSE, read)
PaintRelease == \E pointer \in PaintPoints : handleMouseUp(pointer)

NextPaint ==
  \/ SelectPaintTool
  \/ PaintClick
  \/ PaintRelease

SpecPaint == InitDrawn /\ [][NextPaint]_vars

\* undo and redo from their consumers
HistoryEntryClick ==
  /\ \E targetIndex \in 0..(Len(history) - 1) : handleJumpToState(targetIndex)
  /\ UNCHANGED editorVars
\* the History panel's buttons are disabled by !canUndo() and !canRedo()
PanelUndo == canUndo /\ Undo
PanelRedo == canRedo /\ Redo
CtrlZ == \E copy \in ShortcutCopies, shift \in BOOLEAN : ctrlZ(copy, shift)
LoadCompletes == \E i \in 1..Len(loads) : loadCompletes(i)

\* ... on the log alone
NextJump ==
  \/ PushHistory
  \/ Undo
  \/ Redo
  \/ HistoryEntryClick

SpecJump == Init /\ [][NextJump]_vars

\* ... on a drawn scene: the History panel, the Edit menu (Undo, Redo) and the
\* shortcuts
NextUndo ==
  \/ PanelUndo
  \/ PanelRedo
  \/ Undo
  \/ Redo
  \/ HistoryEntryClick
  \/ CtrlZ
  \/ LoadCompletes

SpecUndo == InitDrawn /\ [][NextUndo]_vars

\* ... with the restoring shortcuts alone
RestoringShortcut == \E shift \in BOOLEAN : ctrlZ("unnamed/part_001", shift)

NextRestore == RestoringShortcut \/ LoadCompletes

SpecRestore == InitDrawn /\ [][NextRestore]_vars

\* a promise that can resolve does resolve
SpecUndoFair == SpecUndo /\ WF_vars(LoadCompletes)

\* crops on a drawn scene, undone with Ctrl+Z
PickCropTool == selectTool("crop")
UndoShortcut == \E copy \in ShortcutCopies : ctrlZ(copy, FALSE)

NextCropUndo ==
  \/ PickCropTool
  \/ PressAtOrigin
  \/ DragAcross
  \/ MouseUp
  \/ UndoShortcut
  \/ LoadCompletes

SpecCropUndo == InitDrawn /\ [][NextCropUndo]_vars

\* the two resize dialogs and the canvas utility on a drawn scene
HandleApply ==
  \E width \in Widths, height \in Heights, mode \in ResizeModes :
    handleApply(width, height, mode)
ResizeCanvas ==
  \E width \in Widths, height \in Heights, scaleContent \in BOOLEAN :
    resizeCanvas(width, height, scaleContent)

NextResize == HandleApply \/ ResizeCanvas

SpecResize == InitDrawn /\ [][NextResize]_vars

\* the rotate commands on a drawn scene
OnRotate == \E detail \in RotateDetails : onRotate(detail)
RotateCanvas == \E degrees \in Degrees : rotateCanvas(degrees)

NextRotate == OnRotate \/ RotateCanvas

SpecRotate == InitDrawn /\ [][NextRotate]_vars

(* --------------------------- history claims ---------------------------- *)

HistoryIds(h) == {h[k].id : k \in 1..Len(h)}

\* number of entries of the log at indices 0..historyIndex
KeptCount == Min(Max(historyIndex + 1, 0), Len(history))

\* C1: after every pushHistory, undo or redo call that changes the store,
\* historyIndex lies within [0, history.length-1], canUndo() is true exactly
\* when historyIndex > 0 and canRedo() exactly when historyIndex < history.length-1.
C1_IndexInBounds ==
  [][ /\ historyIndex' >= 0
      /\ historyIndex' <= Len(history') - 1
      /\ canUndo' <=> (historyIndex' > 0)
      /\ canRedo' <=> (historyIndex' < Len(history') - 1) ]_vars

\* C2: a pushHistory at historyIndex = i leaves exactly the previous entries
\* 0..i in order (minus an evicted oldest one) followed by the new entry; every
\* previous entry at an index > i is gone, historyIndex is the last index and
\* canRedo() is false.
C2_PushDiscardsFuture ==
  [][ PushHistory =>
        LET n  == Len(history')
            ev == KeptCount - (n - 1)
        IN  /\ n >= 1
            /\ history'[n].id \notin HistoryIds(history)
            /\ ev \in {0, 1}
            /\ ev = 1 <=> KeptCount + 1 > maxHistory
            /\ \A k \in 1..(n - 1) : history'[k] = history[k + ev]
            /\ \A k \in 1..Len(history) : k > historyIndex + 1 => history[k].id \notin HistoryIds(history')
            /\ historyIndex' = n - 1
            /\ ~canRedo' ]_vars

\* a push happened after an undo: fewer entries than pushes although the
\* bound was never the reason
C2_Witness ==
  /\ Len(history) >= 2
  /\ Len(history) < nextUuid - 1
  /\ Len(history) < maxHistory
  /\ historyIndex = Len(history) - 1

\* C3: history.length <= maxHistory always; a pushHistory that would exceed
\* the bound removes exactly the oldest entry, keeps the order of the others
\* and leaves historyIndex = history.length-1.
C3_HistoryBounded ==
  /\ [](Len(history) <= maxHistory)
  /\ [][ (PushHistory /\ KeptCount + 1 > maxHistory) =>
           /\ Len(history') = maxHistory
           /\ history[1].id \notin HistoryIds(history')
           /\ \A k \in 2..KeptCount : history'[k - 1] = history[k]
           /\ HistoryIds(history') \ HistoryIds(history) = {history'[Len(history')].id}
           /\ historyIndex' = Len(history') - 1 ]_vars

\* the first entry ever pushed has been evicted from a full log
C3_Witness ==
  /\ Len(history) = maxHistory
  /\ history[1].id # uuid(1)
  /\ historyIndex = Len(history) - 1

\* C4: undo moves historyIndex from i to i-1 when i > 0 and changes nothing
\* when i = 0; redo moves it from i to i+1 when i < history.length-1 and
\* changes nothing when i = history.length-1.
C4_UndoRedoStep ==
  [][ /\ Undo => /\ historyIndex > 0 => historyIndex' = historyIndex - 1
                 /\ historyIndex = 0 => UNCHANGED storeVars
                 /\ UNCHANGED <<layerVars, history, maxHistory>>
      /\ Redo => /\ historyIndex < Len(history) - 1 => historyIndex' = historyIndex + 1
                 /\ historyIndex = Len(history) - 1 => UNCHANGED storeVars
                 /\ UNCHANGED <<layerVars, history, maxHistory>> ]_vars

\* undo has walked a full log back to its first entry
C4_Witness ==
  /\ Len(history) = maxHistory
  /\ historyIndex = 0

(* ---------------------------- layer claims ----------------------------- *)

\* every entry of the layers array is a layer
WellFormed(ls) == \A k \in 1..Len(ls) : IsLayer(ls[k])

\* the array without its k-th entry (1-based)
Without(ls, k) == SubSeq(ls, 1, k - 1) \o SubSeq(ls, k + 1, Len(ls))

\* C5: activeLayerId is null or the id of a layer present in layers.
C5_ActiveLayerPresent ==
  activeLayerId = Null \/ activeLayerId \in LayerIdsOf(layers)

\* C6: removeLayer(id) removes exactly the layer with that id; if it was the
\* active one, activeLayerId becomes the id of the first layer that remains, or
\* null when none remains; otherwise activeLayerId is unchanged.
C6_RemoveLayerActivatesFirstRemaining ==
  [][ \A id \in LayerIds :
        (removeLayer(id) /\ WellFormed(layers)) =>
          /\ layers' = SelectSeq(layers, LAMBDA l : l.id # id)
          /\ activeLayerId' = IF activeLayerId # id THEN activeLayerId
                              ELSE IF layers' = <<>> THEN Null ELSE layers'[1].id ]_vars

C8_FlattenKeepsFirstId ==
  [][ (FlattenLayers /\ WellFormed(layers)) =>
        IF Len(layers) >= 2
        THEN /\ Len(layers') = 1
             /\ layers'[1].id = layers[1].id
             /\ layers'[1].name = "Background"
             /\ activeLayerId' = layers[1].id
        ELSE UNCHANGED storeVars ]_vars

\* a flattened document whose single layer is the active one
C8_Witness ==
  /\ Len(layers) = 1
  /\ WellFormed(layers)
  /\ layers[1].name = "Background"
  /\ activeLayerId = layers[1].id

\* C9: reorderLayers(from, to) with both indices in [0, length-1] puts the layer
\* formerly at from at index to and keeps the others in order; with an index
\* outside that range it leaves the layers sequence unchanged.
C9_ReorderInRangeOrNoOp ==
  [][ \A from \in ReorderIndexes(Len(layers)), to \in ReorderIndexes(Len(layers)) :
        (reorderLayers(from, to) /\ WellFormed(layers)) =>
          IF from \in 0..(Len(layers) - 1) /\ to \in 0..(Len(layers) - 1)
          THEN /\ Len(layers') = Len(layers)
               /\ layers'[to + 1] = layers[from + 1]
               /\ Without(layers', to + 1) = Without(layers, from + 1)
          ELSE layers' = layers ]_vars

\* C10: addLayer(partial?) appends one layer and leaves the others alone; the
\* new layer has an id no layer of the sequence had and the defaults for the
\* fields partial does not supply; activeLayerId and the returned value are
\* the new layer's id.
C10_AddLayerAppendsFresh ==
  [][ \A partial \in Partials :
        addLayer(partial) =>
          LET n    == Len(layers')
              new  == layers'[n]
              dflt == [visible |-> TRUE, locked |-> FALSE, opacity |-> 1,
                       blendMode |-> "source-over", type |-> "raster"]
          IN  /\ n = Len(layers) + 1
              /\ SubSeq(layers', 1, n - 1) = layers
              /\ new.id \notin LayerIdsOf(layers)
              /\ \A f \in DOMAIN dflt \ DOMAIN partial : new[f] = dflt[f]
              /\ activeLayerId' = new.id
              /\ returned' = new.id ]_vars

C12_ZoomClamped ==
  /\ document.zoom >= 50
  /\ document.zoom <= 32000

(* ----------------------------- canvas claims ---------------------------- *)

\* left, top, flipX and flipY of every canvas object
PositionsAndFlips(objs) ==
  [k \in 1..Len(objs) |->
     [left |-> objs[k].left, top |-> objs[k].top, flipX |-> objs[k].flipX, flipY |-> objs[k].flipY]]

\* C13: flip('horizontal') applied twice, and flip('vertical') applied twice,
\* restores every scene object's left/top position and its flipX/flipY flag,
\* both for App.handleFlip and for flipCanvas.
C13_FlipTwiceRestores ==
  \A direction \in Directions :
    /\ PositionsAndFlips(HandleFlipped(HandleFlipped(objects, direction), direction))
         = PositionsAndFlips(objects)
    /\ PositionsAndFlips(FlippedCanvas(FlippedCanvas(objects, canvasDims, direction), canvasDims, direction))
         = PositionsAndFlips(objects)

\* a drawn rectangle that flipCanvas has mirrored to another place and that
\* a flip can mirror again
C13_Witness ==
  \E k \in 1..Len(objects) :
    /\ ~objects[k].isDocBackground
    /\ objects[k].flipX
    /\ objects[k].width = Num(50)
    /\ objects[k].left = Num(1860)
    /\ activeShape = NullRef

\* the centers of the objects that are not the background, and the width and
\* height of the one that is
CentersAndBackground(objs) ==
  [k \in 1..Len(objs) |->
     IF objs[k].isDocBackground
     THEN [width |-> objs[k].width, height |-> objs[k].height]
     ELSE CenterPoint(objs[k])]

RotatedCanvasTimes4(objs, dims) ==
  RotatedCanvas(RotatedCanvas(RotatedCanvas(RotatedCanvas(objs, dims, 90), dims, 90), dims, 90), dims, 90)

HandleRotatedTimes4(objs) ==
  HandleRotated(HandleRotated(HandleRotated(HandleRotated(objs, 90), 90), 90), 90)

\* C14: four consecutive rotate(90) calls return the center of every
\* non-background object to its original position and the width and height of
\* the background object and of the document to their original values, for
\* rotateCanvas and for App.handleRotate, on square and non-square documents.
C14_FourQuarterTurnsRestore ==
  /\ CentersAndBackground(RotatedCanvasTimes4(objects, canvasDims)) = CentersAndBackground(objects)
  /\ CentersAndBackground(HandleRotatedTimes4(objects)) = CentersAndBackground(objects)

\* a drawn rectangle that four quarter turns of rotateCanvas carried around
\* the 1920 x 1080 document and back to where it was drawn
C14_Witness ==
  /\ Len(objects) >= 2
  /\ objects[1].isDocBackground
  /\ objects[1].angle = 0
  /\ objects[1].width = Num(1920)
  /\ objects[1].height = Num(1080)
  /\ objects[2].angle = 360
  /\ objects[2].width = Num(50)
  /\ objects[2].left = Num(10)
  /\ objects[2].top = Num(10)

(* ------------------------------ crop claims ---------------------------- *)

\* a pointer-up that ends a crop gesture
CropUp == MouseUp /\ isDrawing /\ activeTool = "crop" /\ cropRect # NullRef

\* the object of objs with the identity of obj
SameObject(objs, obj) == objs[CHOOSE j \in 1..Len(objs) : objs[j].oid = obj.oid]

\* C15: crop(rect) with rect.width >= 1 and rect.height >= 1 sets the document
\* dimensions to rect.width x rect.height, moves every non-background object
\* from (x, y) to (x - rect.left, y - rect.top) and leaves the background
\* object at (0, 0) with the new document size.
C15_CropShiftsAndResizes ==
  [][ (CropUp /\ ~CropRejected(cropRect)) =>
        /\ document'.width = cropRect.width
        /\ document'.height = cropRect.height
        /\ \A k \in 1..Len(objects) :
              objects[k].oid # cropRect.oid =>
                /\ objects[k].oid \in OidsOf(objects')
                /\ LET before == objects[k]
                       after  == SameObject(objects', objects[k])
                   IN  IF before.isDocBackground
                       THEN /\ after.left = Num(0)
                            /\ after.top = Num(0)
                            /\ after.width = document'.width
                            /\ after.height = document'.height
                       ELSE /\ after.left = Sub(before.left, cropRect.left)
                            /\ after.top = Sub(before.top, cropRect.top) ]_vars

\* C16: a crop gesture whose overlay has width or height below 1 at
\* pointer-up (a click without a drag included) is a no-op: the document
\* dimensions, every object's position and the history log (length and index)
\* are as before the gesture, and the overlay is gone.
C16_DegenerateCropIsNoOp ==
  [][ (CropUp /\ CropRejected(cropRect)) =>
        /\ document'.width = document.width
        /\ document'.height = document.height
        /\ cropRect.oid \notin OidsOf(objects')
        /\ \A k \in 1..Len(objects) :
              objects[k].oid # cropRect.oid =>
                /\ objects[k].oid \in OidsOf(objects')
                /\ SameObject(objects', objects[k]).left = objects[k].left
                /\ SameObject(objects', objects[k]).top = objects[k].top
        /\ Len(history') = Len(history)
        /\ historyIndex' = historyIndex ]_vars

(* ----------------------------- resize claims --------------------------- *)

Positive(a) == Lt(Num(0), a)

\* a resize request: the dialog in its two modes, or the canvas utility
ResizeRequest(w, h, scaleContent) ==
  \/ handleApply(w, h, IF scaleContent THEN "image" ELSE "canvas")
  \/ resizeCanvas(w, h, scaleContent)

PlacedAs(after, before, sx, sy) ==
  /\ after.left = Mul(before.left, sx)
  /\ after.top = Mul(before.top, sy)
  /\ after.scaleX = Mul(before.scaleX, sx)
  /\ after.scaleY = Mul(before.scaleY, sy)

\* C17: resize(w, h, scaleContent = true) on a document of size oldW x oldH
\* sets the document dimensions to w x h and multiplies every non-background
\* object's left and scaleX by w/oldW and its top and scaleY by h/oldH; with
\* scaleContent = false only the document dimensions change and no object's
\* position or scale changes.
C17_ResizeScalesPerAxis ==
  [][ \A w \in Widths, h \in Heights, scaleContent \in BOOLEAN :
        ( /\ ResizeRequest(w, h, scaleContent)
          /\ Positive(w) /\ Positive(h)
          /\ Positive(document.width) /\ Positive(document.height) ) =>
            /\ document'.width = w
            /\ document'.height = h
            /\ Len(objects') = Len(objects)
            /\ \A k \in 1..Len(objects) :
                  ~objects[k].isDocBackground =>
                    IF scaleContent
                    THEN PlacedAs(objects'[k], objects[k],
                                  Div(w, document.width), Div(h, document.height))
                    ELSE PlacedAs(objects'[k], objects[k], Num(1), Num(1)) ]_vars

\* C18: a resize request with a zero or negative width or height is a no-op:
\* document.width and document.height stay > 0 and unchanged and no scene
\* object's position or scale changes; so document.width > 0 and
\* document.height > 0 in every reachable state.
C18_DegenerateResizeRejected ==
  [][ /\ Positive(document'.width)
      /\ Positive(document'.height)
      /\ \A w \in Widths, h \in Heights, scaleContent \in BOOLEAN :
            (ResizeRequest(w, h, scaleContent) /\ ~(Positive(w) /\ Positive(h))) =>
              /\ document' = document
              /\ Len(objects') = Len(objects)
              /\ \A k \in 1..Len(objects) :
                    PlacedAs(objects'[k], objects[k], Num(1), Num(1)) ]_vars

(* ---------------------------- selection claims ------------------------- *)

Box(obj) == [left |-> obj.left, top |-> obj.top, width |-> obj.width, height |-> obj.height]

MathMax(a, b) == IF a = NaN \/ b = NaN THEN NaN ELSE IF Lt(a, b) THEN b ELSE a

\* the corners [[min x, min y], [max x, max y]] of p and q
Corners(p, q) ==
  <<<<MathMin(p.x, q.x), MathMin(p.y, q.y)>>, <<MathMax(p.x, q.x), MathMax(p.y, q.y)>>>>

\* the corner points of an overlay
CornersOf(obj) ==
  <<<<obj.left, obj.top>>, <<Add(obj.left, obj.width), Add(obj.top, obj.height)>>>>

MarqueeDown(p) ==
  /\ activeTool \in MarqueeTools
  /\ \E copy \in Copies, altKey \in BOOLEAN, read \in PixelReads : handleMouseDown(copy, p, altKey, read)
MarqueeMove(q) ==
  /\ activeTool \in MarqueeTools /\ isDrawing /\ selectionRect # NullRef
  /\ handleMouseMove(q)
MarqueeUp ==
  /\ activeTool \in MarqueeTools /\ isDrawing /\ selectionRect # NullRef
  /\ MouseUp

C20_EyedropperSamplesOpaquePixels ==
  [][ \A copy \in Copies, pointer \in ScenePoints, altKey \in BOOLEAN, read \in PixelReads :
        (activeTool = "eyedropper" /\ handleMouseDown(copy, pointer, altKey, read)) =>
          /\ foregroundColor' = (IF read.inside /\ read.data[4] > 0
                                 THEN HexColor(read.data)
                                 ELSE foregroundColor)
          /\ UNCHANGED <<backgroundColor, history, historyIndex, selection>> ]_vars

(* ------------------------------ tool claims ---------------------------- *)

\* Most auto-repeated keydown events followed while the space key is held.
MaxRepeats == 2

RECURSIVE SpaceRepeated(_, _)
SpaceRepeated(tools, n) ==
  IF n = 0 THEN tools ELSE SpaceRepeated(ToolsAfterSpaceDown(tools), n - 1)

\* C21: for every tool T active when the space key is pressed, after the key
\* is held (with any number of auto-repeated keydown events) and released,
\* the active tool is T again and previousTool has the value it had before
\* the key was pressed.
C21_SpaceRestoresTools ==
  ~spaceDown =>
    \A n \in 0..MaxRepeats :
      ToolsAfterSpaceUp(SpaceRepeated(ToolsAfterSpaceDown(<<activeTool, previousTool>>), n))
        = <<activeTool, previousTool>>

\* a crop or marquee drag is in flight: pointer-down has put the overlay of the
\* active tool on the canvas and pointer-up has not come yet
OverlayDrag ==
  /\ isDrawing
  /\ activeTool \in MarqueeTools \cup {"crop"}
  /\ GestureRef # NullRef

\* a pointer-up in this state takes the crop case or the marquee case of
\* handleMouseUp: it applies the crop and saves 'Crop', or sets the selection
PointerUpCommits ==
  /\ isDrawing
  /\ \/ activeTool = "crop" /\ cropRect # NullRef
     \/ activeTool \in MarqueeTools /\ selectionRect # NullRef

\* C22: Escape between the pointer-down and the pointer-up of a crop or marquee
\* drag takes the overlay off the canvas, leaves the selection inactive with
\* type 'none', and aborts the gesture: the pointer-up that follows applies no
\* crop, sets no selection and saves no snapshot.
C22_EscapeAbortsOverlayDrag ==
  [][(handleEscape /\ OverlayDrag) =>
       /\ GestureRef.oid \notin OidsOf(objects')
       /\ selection' = [type |-> "none", feather |-> 0, active |-> FALSE]
       /\ ~PointerUpCommits']_vars

(* ----------------------------- undo claims ----------------------------- *)

\* the log has an entry at historyIndex and the canvas does not show it
SceneBehindLog ==
  /\ historyIndex \in 0..(Len(history) - 1)
  /\ toJSON(objects) # history[historyIndex + 1].snapshot

\* C23: after every undo or redo that changes historyIndex, from the shortcut,
\* the History panel (buttons, entry click) or the Edit menu, the canvas
\* eventually shows the snapshot of history[historyIndex].
C23_SceneFollowsUndo == SceneBehindLog ~> ~SceneBehindLog

\* C24: a click on entry k of the History panel, for every k from 0 to
\* history.length - 1 and every current index, ends with historyIndex = k and
\* the history as it was, and gets there by |k - current| calls of undo() or
\* of redo(), all the same, each moving the index by the single step of the
\* store.
C24_JumpBySingleSteps ==
  [][\A k \in 0..(Len(history) - 1) :
       handleJumpToState(k) =>
         LET calls == JumpCalls(historyIndex, k)
         IN  /\ historyIndex' = k
             /\ history' = history
             /\ Len(calls) = Abs(k - historyIndex)
             /\ \A i \in 1..Len(calls) :
                  calls[i] = (IF k < historyIndex THEN "undo" ELSE "redo")
             /\ historyIndex' = IndexAfter(historyIndex, Len(history), calls)]_vars

\* the first of three entries is current: entry 0 was clicked while the last
\* entry was current
C24_Witness == Len(history) = 3 /\ historyIndex = 0

\* C25: undo() and redo() of the store change at most historyIndex: the
\* history entries, the layers, activeLayerId, the document, the selection,
\* the colors and the active tool are the same before and after the call.
C25_UndoRedoFrame ==
  [][(undo \/ redo) =>
       UNCHANGED <<history, layers, activeLayerId, document, selection, foregroundColor,
                   backgroundColor, activeTool>>]_vars

\* both rectangles are still in the log after an undo made the first current
C25_Witness ==
  /\ Len(history) = 2
  /\ historyIndex = 0
  /\ Len(history[2].snapshot) = 3

(* ------------------------- tool-change claims -------------------------- *)

\* the overlays a marquee or crop pointer-down puts on the canvas
IsOverlay(obj) == obj.excludeFromExport

\* the shape a pointer-down added and no pointer-up has committed yet
ProvisionalShapes(objs) ==
  IF isDrawing /\ activeShape # NullRef
  THEN {k \in 1..Len(objs) : objs[k].oid = activeShape.oid}
  ELSE {}

\* C26: after every setActiveTool transition, one between the pointer-down and
\* the pointer-up of a drag included, the canvas holds no crop overlay, no
\* marquee overlay and no uncommitted provisional shape of the previous tool.
C26_ToolChangeDiscardsTransients ==
  [][(activeTool' # activeTool /\ toolBecomes(activeTool')) =>
       /\ \A k \in 1..Len(objects') : ~IsOverlay(objects'[k])
       /\ ProvisionalShapes(objects') = {}]_vars

\* C27: in every reachable state the objects other than the background are
\* selectable exactly when the active tool is 'move'.
C27_SelectableIffMove ==
  \A k \in 1..Len(objects) :
    ~objects[k].isDocBackground => (objects[k].selectable <=> activeTool = "move")

\* this step pushes one entry labeled 'Draw shape'
DrawShapePushed ==
  /\ nextUuid' = nextUuid + 1
  /\ history' # <<>>
  /\ history'[Len(history')].label = "Draw shape"
  /\ history'[Len(history')].id = uuid(nextUuid)

\* a drag that a pointer-down under a shape tool began, with the provisional
\* shape it added on the canvas
ShapeDrag ==
  /\ isDrawing
  /\ activeTool \in ShapeTools
  /\ activeShape # NullRef
  /\ activeShape.oid \in OidsOf(objects)

\* C28: an entry labeled 'Draw shape' is pushed once per shape gesture, at the
\* pointer-up that ends a drag begun by a pointer-down under shape-rect,
\* shape-ellipse or shape-line which added one provisional shape; none is
\* pushed for a pointer-up whose drag began under another tool or added no
\* shape.
C28_DrawShapeOncePerGesture ==
  [][/\ DrawShapePushed => ShapeDrag
     /\ (ShapeDrag /\ \E pointer \in ScenePoints : handleMouseUp(pointer)) => DrawShapePushed]_vars

(* ----------------------------- fill claims ----------------------------- *)

\* this step pushes one entry with the label
Pushed(label) ==
  /\ nextUuid' = nextUuid + 1
  /\ history' # <<>>
  /\ history'[Len(history')].label = label
  /\ historyIndex' = Len(history') - 1

\* the object a paint-bucket click at the point is to fill: the active object;
\* else the last object in stacking order that is not the background and
\* contains the point; else the background
BucketTarget(point) ==
  LET over == {k \in 1..Len(objects) :
                 ~objects[k].isDocBackground /\ ContainsPoint(objects[k], point)}
  IN  IF activeObject # {} THEN activeObject
      ELSE IF over # {} THEN {objects[CHOOSE k \in over : \A j \in over : j <= k].oid}
      ELSE {objects[k].oid : k \in {j \in 1..Len(objects) : objects[j].isDocBackground}}

\* C29: a paint-bucket click sets the fill of exactly one object, the active
\* object, else the top-most object other than the background that contains
\* the click point, else the document background, and pushes exactly one
\* entry labeled 'Paint bucket'.
C29_PaintBucketFillsOne ==
  [][\A copy \in Copies, pointer \in PaintPoints, read \in PixelReads :
       (activeTool = "paint-bucket" /\ handleMouseDown(copy, pointer, FALSE, read)) =>
         /\ Cardinality(BucketTarget(pointer)) = 1
         /\ Len(objects') = Len(objects)
         /\ \A k \in 1..Len(objects) :
              objects'[k] = IF objects[k].oid \in BucketTarget(pointer)
                            THEN [objects[k] EXCEPT !.fill = foregroundColor]
                            ELSE objects[k]
         /\ Pushed("Paint bucket")]_vars

\* C30: a gradient gesture, pointer-down then pointer-up under the gradient
\* tool, made while no object is selected changes no fill and leaves the
\* history log, entries and index, as it was.
C30_GradientWithoutTargetIsNoOp ==
  [][\A pointer \in PaintPoints :
       (activeTool = "gradient" /\ isDrawing /\ activeObject = {} /\ handleMouseUp(pointer)) =>
         /\ Len(objects') = Len(objects)
         /\ \A k \in 1..Len(objects) : objects'[k] = objects[k]
         /\ UNCHANGED <<history, historyIndex>>]_vars

(* ---------------------------- gesture claims --------------------------- *)

\* C31: at most one pointer drag is in flight: a pointer-down that arrives
\* while the pointer-up of an earlier drag has not come starts no second
\* gesture, so it adds no object to the canvas and leaves the origin and the
\* provisional object of the first gesture as they are.
C31_OneDragInFlight ==
  [][\A copy \in Copies, pointer \in ScenePoints :
       (isDrawing /\ handleMouseDown(copy, pointer, FALSE, [inside |-> FALSE, data |-> <<0, 0, 0, 0>>])) =>
         UNCHANGED <<objects, origin, activeShape, selectionRect, cropRect>>]_vars

(* ------------------------- whole-document claims ----------------------- *)

\* C32: the handler of a menu signal that carries a parameter acts on the
\* value the menu issued: 'Rotate 180' turns the objects by 180, 'Rotate 90
\* CCW' by -90 and 'Rotate 90 CW' by 90.
C32_RotateActsOnIssuedAngle ==
  [][\A detail \in RotateDetails :
       onRotate(detail) => objects' = HandleRotated(objects, detail.angle)]_vars

\* width x height the background of a serialized scene covers; the background
\* is the first object of every scene
SnapshotExtent(snapshot) ==
  [width  |-> Mul(snapshot[1].width, snapshot[1].scaleX),
   height |-> Mul(snapshot[1].height, snapshot[1].scaleY)]

\* C33: a history snapshot restores the document metadata with the scene: once
\* an undo (or redo) has put the snapshot of history[historyIndex] back on the
\* canvas, document.width and document.height are the values they had when
\* that snapshot was taken, the extent of the scene it holds; in particular
\* after a crop is committed and undone they are the values from before the
\* crop.
C33_RestoreBringsBackDocument ==
  [][\A i \in 1..Len(loads) :
       (/\ loadCompletes(i)
        /\ loads' = <<>>
        /\ historyIndex \in 0..(Len(history) - 1)
        /\ loads[i] = history[historyIndex + 1].snapshot) =>
         /\ document'.width = SnapshotExtent(loads[i]).width
         /\ document'.height = SnapshotExtent(loads[i]).height]_vars

\* the store's document.width x document.height is the extent the background
\* object covers, width * scaleX x height * scaleY from (0, 0)
DocumentIsBackgroundExtent ==
  /\ FindBackground(objects) # 0
  /\ LET bg == objects[FindBackground(objects)]
     IN  /\ bg.left = Num(0)
         /\ bg.top = Num(0)
         /\ Mul(bg.width, bg.scaleX) = document.width
         /\ Mul(bg.height, bg.scaleY) = document.height

\* C34: after every completed whole-document operation the store's
\* document.width x document.height equals the extent the background object
\* covers; here for a resize to a positive size, with or without content
\* scaling, of a document whose background covered it before.
C34_ResizeKeepsDocumentAndBackground ==
  [][\A w \in Widths, h \in Heights, scaleContent \in BOOLEAN :
       (/\ ResizeRequest(w, h, scaleContent)
        /\ Positive(w) /\ Positive(h)
        /\ DocumentIsBackgroundExtent) =>
         DocumentIsBackgroundExtent']_vars

\* C35: while the space key is held, a pointer-down, move or up only pans: the
\* gesture of the selected tool does not run, so the canvas objects (no
\* provisional shape, no overlay, no fill), the document (no crop), the
\* selection and the history log stay as they are.
C35_SpaceDragOnlyPans ==
  [][(spaceDown /\ (PointerDown \/ MouseMove \/ MouseUp)) =>
       UNCHANGED <<objects, document, selection, history, historyIndex>>]_vars

\* the canvas objects designated as the document background
Backgrounds == {k \in 1..Len(objects) : objects[k].isDocBackground}

\* C36: in every reachable state the canvas holds exactly one object
\* designated as the document background, also after a history snapshot was
\* restored by undo or redo.
C36_OneBackground == Cardinality(Backgrounds) = 1

\* C37: when several undo / redo shortcuts are issued before earlier restores
\* have completed, then once no restore is pending the canvas shows the
\* snapshot at the final historyIndex, whatever order the loads complete in.
C37_LastRestoreWins == (loads = <<>>) => ~SceneBehindLog

\* C38: historyIndex is -1 exactly when history is empty, and whenever
\* historyIndex >= 0 history[historyIndex] is an entry of the log; undo() and
\* redo() on an empty history leave historyIndex at -1.
C38_IndexDefinedOrMinusOne ==
  /\ (historyIndex = -1) <=> (history = <<>>)
  /\ historyIndex >= 0 => historyIndex < Len(history)

\* C39: every committed operation can be undone: when an operation pushes a
\* history entry, some entry of the log, at an index undo() reaches, holds the
\* scene as it was immediately before the operation; this includes the first
\* operation on a fresh document.
C39_CommittedOperationUndoable ==
  [][history' # history =>
       \E k \in 1..Len(history') : history'[k].snapshot = toJSON(objects)]_vars

\* the two corner points [[left, top], [right, bottom]] of a region
IsRegion(path) ==
  /\ ~Lt(path[2][1], path[1][1])
  /\ ~Lt(path[2][2], path[1][2])
WholeDocument == <<<<Num(0), Num(0)>>, <<document.width, document.height>>>>

\* C40: whenever selection.active is true, selection.type is 'rect' or
\* 'ellipse' and selection.path is the two corner points of the region the most
\* recent selecting command designated, left <= right and top <= bottom: the
\* marquee's corners after a marquee drag, the whole document after select-all,
\* never the path of an earlier selection; clearSelection resets the selection
\* to {type: 'none', feather: 0, active: false}.
C40_ActiveSelectionHasItsRegion ==
  [][ /\ selection'.active =>
            /\ selection'.type \in {"rect", "ellipse"}
            /\ "path" \in DOMAIN selection'
            /\ IsRegion(selection'.path)
      /\ (MarqueeUp /\ selection'.active) => selection'.path = CornersOf(selectionRect)
      /\ (CtrlA /\ "path" \in DOMAIN selection') => selection'.path = WholeDocument
      /\ CtrlD => selection' = [type |-> "none", feather |-> 0, active |-> FALSE] ]_vars

====
